---- MODULE Spec2Model ----
(***************************************************************************)
(* AI Legal Clause Checker (app.py): the clause segmenter, the two risk    *)
(* classifiers and the analysis loop, as state machines over texts that    *)
(* are sequences of one-character strings.                                 *)
(***************************************************************************)
EXTENDS Integers, Sequences, FiniteSets, TLC

(***************************************************************************)
(* Characters and Python's str primitives                                  *)
(***************************************************************************)

\* \s of module re and the whitespace str.strip() removes
IsSpace(c) == c \in {" ", "\n", "\r", "\t"}

\* \d of module re
IsDigit(c) == c \in {"0", "1", "2", "3", "4", "5", "6", "7", "8", "9"}

\* str.lower() on one character
LowerChar(c) ==
  CASE c = "A" -> "a" [] c = "B" -> "b" [] c = "C" -> "c" [] c = "D" -> "d"
    [] c = "E" -> "e" [] c = "F" -> "f" [] c = "G" -> "g" [] c = "H" -> "h"
    [] c = "I" -> "i" [] c = "J" -> "j" [] c = "K" -> "k" [] c = "L" -> "l"
    [] c = "M" -> "m" [] c = "N" -> "n" [] c = "O" -> "o" [] c = "P" -> "p"
    [] c = "Q" -> "q" [] c = "R" -> "r" [] c = "S" -> "s" [] c = "T" -> "t"
    [] c = "U" -> "u" [] c = "V" -> "v" [] c = "W" -> "w" [] c = "X" -> "x"
    [] c = "Y" -> "y" [] c = "Z" -> "z" [] OTHER -> c

\* str.lower()
Lower(s) == [i \in 1..Len(s) |-> LowerChar(s[i])]

\* str.strip(): from the first to the last character that is no whitespace
Strip(s) ==
  IF \A i \in 1..Len(s) : IsSpace(s[i]) THEN <<>>
  ELSE LET n == Len(s)
           lo == CHOOSE i \in 1..n :
                    ~IsSpace(s[i]) /\ \A j \in 1..(i - 1) : IsSpace(s[j])
           back == CHOOSE k \in 1..n :
                      /\ ~IsSpace(s[n + 1 - k])
                      /\ \A j \in (n + 2 - k)..n : IsSpace(s[j])
       IN  SubSeq(s, lo, n + 1 - back)

\* needle in haystack (str.__contains__)
Contains(hay, needle) ==
  \E i \in 1..(Len(hay) - Len(needle) + 1) :
     SubSeq(hay, i, i + Len(needle) - 1) = needle

\* " ".join(buf)
RECURSIVE Join(_)
Join(buf) ==
  IF buf = <<>> THEN <<>>
  ELSE IF Len(buf) = 1 THEN buf[1]
  ELSE buf[1] \o <<" ">> \o Join(Tail(buf))

\* the text between the matches of a pattern (re.split without groups):
\* matches is a set of <<first, last>> index pairs, pairwise disjoint
RECURSIVE SplitAt(_, _, _)
SplitAt(s, matches, from) ==
  LET later == {m \in matches : m[1] >= from}
  IN  IF later = {} THEN << SubSeq(s, from, Len(s)) >>
      ELSE LET m == CHOOSE m \in later : \A n \in later : m[1] <= n[1]
           IN  << SubSeq(s, from, m[1] - 1) >> \o SplitAt(s, matches, m[2] + 1)

(***************************************************************************)
(* normalize_text                                                          *)
(***************************************************************************)

\* text.replace("\r", "\n")
ReplaceCR(s) == [i \in 1..Len(s) |-> IF s[i] = "\r" THEN "\n" ELSE s[i]]

\* re.sub(r"\n{3,}", "\n\n", text): of a run of newlines the first two stay
CollapseNewlines(s) ==
  LET third(i) == i >= 3 /\ s[i] = "\n" /\ s[i-1] = "\n" /\ s[i-2] = "\n"
      marked == [i \in 1..Len(s) |-> << s[i], ~third(i) >>]
      kept == SelectSeq(marked, LAMBDA e : e[2])
  IN  [i \in 1..Len(kept) |-> kept[i][1]]

normalize_text(text) == Strip(CollapseNewlines(ReplaceCR(text)))

(***************************************************************************)
(* split_into_clauses: the two regular expressions                         *)
(***************************************************************************)

\* [ivxlcdm] under re.IGNORECASE
IsRoman(c) == LowerChar(c) \in {"i", "v", "x", "l", "c", "d", "m"}

\* s[p..k] matches \d+(?:\.\d+)* : digits and single dots, a digit at each end
NumberLabel(s, p, k) ==
  /\ p <= k
  /\ \A j \in p..k : IsDigit(s[j]) \/ s[j] = "."
  /\ IsDigit(s[p]) /\ IsDigit(s[k])
  /\ \A j \in p..(k-1) : ~(s[j] = "." /\ s[j+1] = ".")

\* s[p..k] matches [ivxlcdm]+\.
RomanLabel(s, p, k) ==
  /\ p < k
  /\ s[k] = "."
  /\ \A j \in p..(k-1) : IsRoman(s[j])

SectionWord == <<"s", "e", "c", "t", "i", "o", "n">>

\* s[p..k] matches section\s+\d+ under re.IGNORECASE
SectionLabel(s, p, k) ==
  /\ p + 8 <= k
  /\ Lower(SubSeq(s, p, p + 6)) = SectionWord
  /\ \E q \in (p + 8)..k :
        /\ \A j \in (p + 7)..(q - 1) : IsSpace(s[j])
        /\ \A j \in q..k : IsDigit(s[j])

\* the lookahead (?=(?:section\s+\d+|\d+(?:\.\d+)*|[ivxlcdm]+\.)\s+) at p
HeadingAhead(s, p) ==
  \E k \in p..(Len(s) - 1) :
     /\ IsSpace(s[k + 1])
     /\ \/ SectionLabel(s, p, k)
        \/ NumberLabel(s, p, k)
        \/ RomanLabel(s, p, k)

\* the last index of the match of \n\s*\n that starts at i (0: no match);
\* \s* is greedy, so the match runs to the last newline of the blank run
BlankLineEnd(s, i) ==
  LET ends == {j \in (i + 1)..Len(s) :
                  s[j] = "\n" /\ \A k \in (i + 1)..(j - 1) : IsSpace(s[k])}
  IN  IF s[i] # "\n" \/ ends = {} THEN 0
      ELSE CHOOSE j \in ends : \A k \in ends : k <= j

\* the matches re.split finds, left to right and non-overlapping, of
\* \n(?=heading)|\n\s*\n : a newline already inside an earlier blank-line
\* match starts no match of its own
SectionMatches(s) ==
  LET inside(i) == \E h \in 1..(i - 1) :
                      s[h] = "\n" /\ \A k \in (h + 1)..(i - 1) : IsSpace(s[k])
      starts == {i \in 1..Len(s) : s[i] = "\n" /\ ~inside(i)}
      heading == {<<i, i>> : i \in {j \in starts : HeadingAhead(s, j + 1)}}
      blank == {<<i, BlankLineEnd(s, i)>> :
                  i \in {j \in starts : ~HeadingAhead(s, j + 1)
                                        /\ BlankLineEnd(s, j) # 0}}
  IN  heading \cup blank

\* parts = re.split(<section markers>, text)
SplitSections(text) == SplitAt(text, SectionMatches(text), 1)

\* [.;:] of the lookbehind
IsSentEnd(c) == c \in {".", ";", ":"}

\* the matches of (?<=[.;:])\s+ : each whitespace run that follows . ; or :
SentenceMatches(s) ==
  LET starts == {i \in 2..Len(s) : IsSpace(s[i]) /\ IsSentEnd(s[i - 1])}
      runEnd(i) == CHOOSE j \in i..Len(s) :
                      /\ \A k \in i..j : IsSpace(s[k])
                      /\ (j = Len(s) \/ ~IsSpace(s[j + 1]))
  IN  {<<i, runEnd(i)>> : i \in starts}

\* sentences = re.split(r"(?<=[.;:])\s+", part.strip())
SplitSentences(part) ==
  LET p == Strip(part) IN SplitAt(p, SentenceMatches(p), 1)

(***************************************************************************)
(* split_into_clauses: packing sentences into the size window              *)
(***************************************************************************)

\* cur = " " + " ".join(buf)
Cur(buf) == <<" ">> \o Join(buf)

\* flush(buf): the chunks after the call
flush(buf, chunks, min_chars) ==
  IF buf = <<>> THEN chunks
  ELSE LET chunk == Strip(Join(buf))
       IN  IF Len(chunk) >= min_chars THEN Append(chunks, chunk) ELSE chunks

\* AfterSentence with the overflow test off by one: > max_chars + 1
AfterSentence_Late(st, sent, min_chars, max_chars) ==
  LET buf == Append(st.buf, sent)
  IN  IF Len(Cur(buf)) > max_chars + 1
      THEN [buf |-> <<>>, chunks |-> flush(buf, st.chunks, min_chars)]
      ELSE [buf |-> buf, chunks |-> st.chunks]

\* AfterSentence without buf = [] after the flush
AfterSentence_NoReset(st, sent, min_chars, max_chars) ==
  LET buf == Append(st.buf, sent)
  IN  IF Len(Cur(buf)) > max_chars
      THEN [buf |-> buf, chunks |-> flush(buf, st.chunks, min_chars)]
      ELSE [buf |-> buf, chunks |-> st.chunks]

\* one turn of the inner loop, on st = [buf, chunks]
AfterSentence(st, sent, min_chars, max_chars) ==
  LET buf == Append(st.buf, sent)
  IN  IF Len(Cur(buf)) > max_chars
      THEN [buf |-> <<>>, chunks |-> flush(buf, st.chunks, min_chars)]
      ELSE [buf |-> buf, chunks |-> st.chunks]

\* AfterPart that keeps a buffer too short to be flushed for the next part
AfterPart_Carry(st, min_chars) ==
  IF st.buf # <<>> /\ Len(Strip(Join(st.buf))) >= min_chars
  THEN [buf |-> <<>>, chunks |-> flush(st.buf, st.chunks, min_chars)]
  ELSE st

\* the end of one turn of the outer loop: if buf: flush(buf); buf = []
AfterPart(st, min_chars) ==
  IF st.buf # <<>>
  THEN [buf |-> <<>>, chunks |-> flush(st.buf, st.chunks, min_chars)]
  ELSE st

\* no fallback at all
Fallback_Missing(chunks, text) == chunks

\* if not chunks and text: chunks = [text]
Fallback(chunks, text) ==
  IF chunks = <<>> /\ text # <<>> THEN <<text>> ELSE chunks

RECURSIVE PackSentences(_, _, _, _)
PackSentences(st, sentences, min_chars, max_chars) ==
  IF sentences = <<>> THEN st
  ELSE PackSentences(AfterSentence(st, Head(sentences), min_chars, max_chars),
                     Tail(sentences), min_chars, max_chars)

RECURSIVE PackParts(_, _, _, _)
PackParts(st, parts, min_chars, max_chars) ==
  IF parts = <<>> THEN st
  ELSE PackParts(AfterPart(PackSentences(st, SplitSentences(Head(parts)),
                                         min_chars, max_chars), min_chars),
                 Tail(parts), min_chars, max_chars)

\* split_into_clauses(text, min_chars, max_chars)
split_into_clauses(raw, min_chars, max_chars) ==
  LET t == normalize_text(raw)
      st == PackParts([buf |-> <<>>, chunks |-> <<>>], SplitSections(t),
                      min_chars, max_chars)
  IN  Fallback(st.chunks, t)

(***************************************************************************)
(* String constants of app.py                                              *)
(***************************************************************************)

\* the str Safe
S_Safe == <<"S", "a", "f", "e">>

\* the str Review
S_Review == <<"R", "e", "v", "i", "e", "w">>

\* the str Risky
S_Risky == <<"R", "i", "s", "k", "y">>

\* the str safe
S_safe == <<"s", "a", "f", "e">>

\* the str review
S_review == <<"r", "e", "v", "i", "e", "w">>

\* the str risky
S_risky == <<"r", "i", "s", "k", "y">>

\* str(None)
S_None == <<"N", "o", "n", "e">>

\* the meaning of the failure sentinel
S_Failed ==
  <<"(", "F", "a", "i", "l", "e", "d", " ", "t", "o", " ", "a", "n", "a",
    "l", "y", "z", "e", " ", "c", "l", "a", "u", "s", "e", ".", ")">>

\* the prefix of the failure sentinel's why
S_ErrorPrefix == <<"E", "r", "r", "o", "r", ":", " ">>

\* the grave accent, one character (a TLA+ string cannot hold it)
Grave == "grave"

\* the RuntimeError of analyze_with_llm without a client
S_NoSdk ==
  <<"O", "p", "e", "n", "A", "I", " ", "S", "D", "K", " ", "n", "o", "t",
    " ", "a", "v", "a", "i", "l", "a", "b", "l", "e", ".", " ", "I", "n",
    "s", "t", "a", "l", "l", " ", Grave, "o", "p", "e", "n", "a", "i", ">",
    "=", "1", ".", "0", ".", "0", Grave, ".">>

\* the why of mock_analyze without reasons
S_NoRedFlags ==
  <<"N", "o", " ", "o", "b", "v", "i", "o", "u", "s", " ", "r", "e", "d",
    " ", "f", "l", "a", "g", "s", " ", "f", "o", "u", "n", "d", " ", "b",
    "y", " ", "k", "e", "y", "w", "o", "r", "d", " ", "h", "e", "u", "r",
    "i", "s", "t", "i", "c", ".">>

\* the reason of a risky keyword, up to the keyword
S_Contains == <<"C", "o", "n", "t", "a", "i", "n", "s", " ", "'">>

\* the reason of a review keyword, up to the keyword
S_Mentions == <<"M", "e", "n", "t", "i", "o", "n", "s", " ", "'">>

\* the end of both reasons, after the keyword
S_ReasonEnd == <<"'", ".">>

\* the suggestion of mock_analyze for Risky
S_SuggestRisky ==
  <<"L", "i", "m", "i", "t", " ", "l", "i", "a", "b", "i", "l", "i", "t",
    "y", " ", "t", "o", " ", "d", "i", "r", "e", "c", "t", " ", "d", "a",
    "m", "a", "g", "e", "s", " ", "a", "n", "d", " ", "m", "u", "t", "u",
    "a", "l", " ", "c", "a", "p", "s", ";", " ", "a", "v", "o", "i", "d",
    " ", "p", "e", "r", "p", "e", "t", "u", "a", "l", "/", "i", "r", "r",
    "e", "v", "o", "c", "a", "b", "l", "e", " ", "r", "i", "g", "h", "t",
    "s", ";", " ", "r", "e", "q", "u", "i", "r", "e", " ", "w", "r", "i",
    "t", "t", "e", "n", " ", "c", "o", "n", "s", "e", "n", "t", " ", "f",
    "o", "r", " ", "a", "s", "s", "i", "g", "n", "m", "e", "n", "t", ";",
    " ", "p", "e", "r", "m", "i", "t", " ", "c", "o", "u", "r", "t", " ",
    "r", "e", "m", "e", "d", "i", "e", "s", " ", "w", "h", "e", "r", "e",
    " ", "a", "p", "p", "r", "o", "p", "r", "i", "a", "t", "e", ".">>

\* the suggestion of mock_analyze for Review
S_SuggestReview ==
  <<"C", "l", "a", "r", "i", "f", "y", " ", "t", "i", "m", "e", "l", "i",
    "n", "e", "s", ",", " ", "n", "o", "t", "i", "c", "e", " ", "p", "e",
    "r", "i", "o", "d", "s", ",", " ", "a", "n", "d", " ", "m", "u", "t",
    "u", "a", "l", " ", "o", "b", "l", "i", "g", "a", "t", "i", "o", "n",
    "s", ";", " ", "e", "n", "s", "u", "r", "e", " ", "b", "a", "l", "a",
    "n", "c", "e", "d", " ", "t", "e", "r", "m", "i", "n", "a", "t", "i",
    "o", "n", " ", "a", "n", "d", " ", "p", "a", "y", "m", "e", "n", "t",
    " ", "t", "e", "r", "m", "s", ".">>

\* the meaning of mock_analyze
S_MockMeaning ==
  <<"T", "h", "i", "s", " ", "c", "l", "a", "u", "s", "e", " ", "s", "e",
    "t", "s", " ", "c", "e", "r", "t", "a", "i", "n", " ", "o", "b", "l",
    "i", "g", "a", "t", "i", "o", "n", "s", "/", "r", "i", "g", "h", "t",
    "s", ".", " ", "P", "l", "e", "a", "s", "e", " ", "v", "e", "r", "i",
    "f", "y", " ", "i", "t", " ", "a", "l", "i", "g", "n", "s", " ", "w",
    "i", "t", "h", " ", "y", "o", "u", "r", " ", "i", "n", "t", "e", "r",
    "e", "s", "t", "s", ",", " ", "e", "s", "p", "e", "c", "i", "a", "l",
    "l", "y", " ", "r", "e", "g", "a", "r", "d", "i", "n", "g", " ", "t",
    "h", "e", " ", "s", "e", "l", "e", "c", "t", "e", "d", " ", "f", "o",
    "c", "u", "s", ".">>

\* RISK_KEYWORDS, risky
RiskyKeywords ==
  <<
    <<"i", "n", "d", "e", "m", "n", "i", "f", "y">>,
    <<"h", "o", "l", "d", " ", "h", "a", "r", "m", "l", "e", "s", "s">>,
    <<"l", "i", "m", "i", "t", "a", "t", "i", "o", "n", " ", "o", "f", " ",
      "l", "i", "a", "b", "i", "l", "i", "t", "y">>,
    <<"e", "x", "c", "l", "u", "s", "i", "v", "e", " ", "j", "u", "r", "i",
      "s", "d", "i", "c", "t", "i", "o", "n">>,
    <<"b", "i", "n", "d", "i", "n", "g", " ", "a", "r", "b", "i", "t", "r",
      "a", "t", "i", "o", "n">>,
    <<"w", "a", "i", "v", "e", "r", " ", "o", "f", " ", "j", "u", "r", "y">>,
    <<"a", "u", "t", "o", "-", "r", "e", "n", "e", "w">>,
    <<"p", "e", "r", "p", "e", "t", "u", "a", "l">>,
    <<"i", "r", "r", "e", "v", "o", "c", "a", "b", "l", "e">>,
    <<"r", "o", "y", "a", "l", "t", "y", "-", "f", "r", "e", "e">>,
    <<"a", "s", "s", "i", "g", "n", " ", "w", "i", "t", "h", "o", "u", "t",
      " ", "c", "o", "n", "s", "e", "n", "t">>,
    <<"l", "i", "q", "u", "i", "d", "a", "t", "e", "d", " ", "d", "a", "m",
      "a", "g", "e", "s">>,
    <<"n", "o", "n", "-", "c", "o", "m", "p", "e", "t", "e">>
  >>

\* RISK_KEYWORDS, review
ReviewKeywords ==
  <<
    <<"t", "e", "r", "m", "i", "n", "a", "t", "i", "o", "n">>,
    <<"3", "0", " ", "d", "a", "y", "s">>,
    <<"c", "o", "n", "f", "i", "d", "e", "n", "t", "i", "a", "l">>,
    <<"g", "o", "v", "e", "r", "n", "i", "n", "g", " ", "l", "a", "w">>,
    <<"l", "a", "t", "e", " ", "f", "e", "e">>,
    <<"i", "n", "t", "e", "r", "e", "s", "t">>,
    <<"f", "o", "r", "c", "e", " ", "m", "a", "j", "e", "u", "r", "e">>,
    <<"i", "n", "t", "e", "l", "l", "e", "c", "t", "u", "a", "l", " ", "p",
      "r", "o", "p", "e", "r", "t", "y">>,
    <<"w", "o", "r", "k", " ", "f", "o", "r", " ", "h", "i", "r", "e">>
  >>

\* the ValueError of int() on a str, up to the str
S_InvalidLiteral ==
  <<"i", "n", "v", "a", "l", "i", "d", " ", "l", "i", "t", "e", "r", "a",
    "l", " ", "f", "o", "r", " ", "i", "n", "t", "(", ")", ":", " ", "'">>

\* the TypeError of int(None)
S_IntOfNone ==
  <<"i", "n", "t", "(", ")", " ", "a", "r", "g", "u", "m", "e", "n", "t",
    " ", "m", "u", "s", "t", " ", "b", "e", " ", "a", " ", "s", "t", "r",
    "i", "n", "g", " ", "o", "r", " ", "a", " ", "n", "u", "m", "b", "e",
    "r">>

(***************************************************************************)
(* ClauseAnalysis, JSON values and Python's conversions                    *)
(***************************************************************************)

\* Python's None, where a field is Optional
None == [tag |-> "None"]

\* a str, where a field is Optional or a JSON value
Str(s) == [tag |-> "str", v |-> s]

\* JSON values of the model's answer: a number, null, a missing key
Num(n) == [tag |-> "int", v |-> n]

Null == [tag |-> "null"]

Absent == [tag |-> "absent"]

\* data.get(key, default)
DictGet(data, key, default) ==
  IF data[key].tag = "absent" THEN default ELSE data[key]

DigitChars == <<"0", "1", "2", "3", "4", "5", "6", "7", "8", "9">>

RECURSIVE NatToStr(_)
NatToStr(n) ==
  IF n < 10 THEN << DigitChars[n + 1] >>
  ELSE NatToStr(n \div 10) \o << DigitChars[(n % 10) + 1] >>

\* str(value)
PyStr(value) ==
  CASE value.tag = "str" -> value.v
    [] value.tag = "int" ->
         IF value.v < 0 THEN <<"-">> \o NatToStr(-value.v)
         ELSE NatToStr(value.v)
    [] OTHER -> S_None

DigitValue(c) == CHOOSE d \in 0..9 : DigitChars[d + 1] = c

RECURSIVE StrToNat(_)
StrToNat(s) ==
  IF s = <<>> THEN 0
  ELSE 10 * StrToNat(SubSeq(s, 1, Len(s) - 1)) + DigitValue(s[Len(s)])

\* int(value): [ok, v], or [ok, detail] where int() raises
PyInt(value) ==
  CASE value.tag = "int" -> [ok |-> TRUE, v |-> value.v]
    [] value.tag = "str" ->
         LET s == Strip(value.v)
             signed == s # <<>> /\ s[1] \in {"+", "-"}
             digits == IF signed THEN Tail(s) ELSE s
         IN  IF digits # <<>> /\ \A i \in 1..Len(digits) : IsDigit(digits[i])
             THEN [ok |-> TRUE,
                   v |-> IF signed /\ s[1] = "-" THEN -StrToNat(digits)
                         ELSE StrToNat(digits)]
             ELSE [ok |-> FALSE,
                   detail |-> S_InvalidLiteral \o value.v \o <<"'">>]
    [] OTHER -> [ok |-> FALSE, detail |-> S_IntOfNone]

\* RISK_MAP = {"safe": 1, "review": 2, "risky": 3}
RISK_MAP == (S_safe :> 1) @@ (S_review :> 2) @@ (S_risky :> 3)

\* the dataclass ClauseAnalysis
ClauseAnalysis(clause, meaning, label, score, why, suggestion, tags) ==
  [clause |-> clause, meaning |-> meaning, risk_label |-> label,
   risk_score |-> score, why |-> why, suggestion |-> suggestion,
   tags |-> tags]

(***************************************************************************)
(* analyze_with_llm                                                        *)
(***************************************************************************)

Max(a, b) == IF a >= b THEN a ELSE b

Min(a, b) == IF a <= b THEN a ELSE b

\* label = str(data.get("risk_label", "Review")).strip()
\* if label.lower() not in RISK_MAP: label = "Review"
CoerceLabel(data) ==
  LET label == Strip(PyStr(DictGet(data, "risk_label", Str(S_Review))))
  IN  IF Lower(label) \notin DOMAIN RISK_MAP THEN S_Review ELSE label

\* score = int(data.get("risk_score", RISK_MAP[label.lower()]))
\* score = max(1, min(3, score))
CoerceScore(data, label) ==
  LET n == PyInt(DictGet(data, "risk_score", Num(RISK_MAP[Lower(label)])))
  IN  IF n.ok THEN [ok |-> TRUE, v |-> Max(1, Min(3, n.v))] ELSE n

\* (str(data.get(key, "")).strip() or None)
StrOrNone(data, key) ==
  LET s == Strip(PyStr(DictGet(data, key, Str(<<>>))))
  IN  IF s = <<>> THEN None ELSE Str(s)

\* analyze_with_llm(clause, ...), given what the client answers: resp is
\* [kind |-> "no_sdk"] (no client), [kind |-> "error", detail] (the request
\* or json.loads raises) or [kind |-> "json", data] (the parsed answer).
\* The result is [ok |-> TRUE, ca] or, where it raises, [ok |-> FALSE, detail].
analyze_with_llm(clause, resp) ==
  CASE resp.kind = "no_sdk" -> [ok |-> FALSE, detail |-> S_NoSdk]
    [] resp.kind = "error" -> [ok |-> FALSE, detail |-> resp.detail]
    [] OTHER ->
         LET data == resp.data
             label == CoerceLabel(data)
             score == CoerceScore(data, label)
         IN  IF ~score.ok THEN [ok |-> FALSE, detail |-> score.detail]
             ELSE [ok |-> TRUE,
                   ca |-> ClauseAnalysis(
                            Strip(clause),
                            Strip(PyStr(DictGet(data, "meaning", Str(<<>>)))),
                            label,
                            score.v,
                            Strip(PyStr(DictGet(data, "why", Str(<<>>)))),
                            StrOrNone(data, "suggestion"),
                            DictGet(data, "tags", None))]

(***************************************************************************)
(* mock_analyze                                                            *)
(***************************************************************************)

\* the keywords of a list that occur in text, in the list's order
Hits(keywords, text) == SelectSeq(keywords, LAMBDA kw : Contains(text, kw))

\* the reasons one scan appends
Reasons(prefix, hits) ==
  [i \in 1..Len(hits) |-> prefix \o hits[i] \o S_ReasonEnd]

\* mock_analyze without the test score < 3 before the review scan
mock_analyze_ScanBoth(clause, focus) ==
  LET lowered == Lower(clause)
      risky == Hits(RiskyKeywords, lowered)
      score1 == IF risky # <<>> THEN 3 ELSE 1
      label1 == IF risky # <<>> THEN S_Risky ELSE S_Safe
      review == Hits(ReviewKeywords, lowered)
      score == IF review # <<>> THEN Max(score1, 2) ELSE score1
      label == IF review # <<>> THEN S_Review ELSE label1
      reasons == Reasons(S_Contains, risky) \o Reasons(S_Mentions, review)
      why == IF Join(reasons) # <<>> THEN Join(reasons) ELSE S_NoRedFlags
      suggestion == IF label = S_Risky THEN Str(S_SuggestRisky)
                    ELSE IF label = S_Review THEN Str(S_SuggestReview)
                    ELSE None
  IN  ClauseAnalysis(Strip(clause), S_MockMeaning, label, score, why,
                     suggestion, << Lower(focus) >>)

\* mock_analyze(clause, focus, jurisdiction)
mock_analyze(clause, focus) ==
  LET lowered == Lower(clause)
      risky == Hits(RiskyKeywords, lowered)
      score1 == IF risky # <<>> THEN 3 ELSE 1
      label1 == IF risky # <<>> THEN S_Risky ELSE S_Safe
      review == IF score1 < 3 THEN Hits(ReviewKeywords, lowered) ELSE <<>>
      score == IF review # <<>> THEN Max(score1, 2) ELSE score1
      label == IF review # <<>> THEN S_Review ELSE label1
      reasons == Reasons(S_Contains, risky) \o Reasons(S_Mentions, review)
      why == IF Join(reasons) # <<>> THEN Join(reasons) ELSE S_NoRedFlags
      suggestion == IF label = S_Risky THEN Str(S_SuggestRisky)
                    ELSE IF label = S_Review THEN Str(S_SuggestReview)
                    ELSE None
  IN  ClauseAnalysis(Strip(clause), S_MockMeaning, label, score, why,
                     suggestion, << Lower(focus) >>)

(***************************************************************************)
(* The body of the analysis loop                                           *)
(***************************************************************************)

\* the ClauseAnalysis of the except branch
Sentinel(ch, detail) ==
  ClauseAnalysis(Strip(ch), S_Failed, S_Review, 2, S_ErrorPrefix \o detail,
                 None, None)

\* try: ca = mock_analyze(...) or analyze_with_llm(...); except: ca = sentinel.
\* [ca, raised, detail]: the analysis appended, whether the except branch
\* ran, and str(e) if it did
LoopBody(ch, mock, focus, resp) ==
  IF mock
  THEN [ca |-> mock_analyze(ch, focus), raised |-> FALSE, detail |-> <<>>]
  ELSE LET r == analyze_with_llm(ch, resp)
       IN  IF r.ok THEN [ca |-> r.ca, raised |-> FALSE, detail |-> <<>>]
           ELSE [ca |-> Sentinel(ch, r.detail), raised |-> TRUE,
                 detail |-> r.detail]

(***************************************************************************)
(* State                                                                   *)
(***************************************************************************)

VARIABLES
  \* split_into_clauses, one call
  raw,          \* the argument text
  min_chars,    \* the argument min_chars
  max_chars,    \* the argument max_chars
  text,         \* the local text, normalized
  parts,        \* the section candidates
  pidx,         \* the outer loop's position in parts
  sentences,    \* the sentence candidates of parts[pidx]
  sidx,         \* the inner loop's position in sentences
  buf,          \* the packing buffer
  chunks,       \* the clauses emitted so far
  fell_back,    \* whether the whole-document fallback replaced chunks
  seg_pc,       \* where the call is: start, part, sentence, done, off
  \* one run of the script with the Analyze button pressed
  pasted,         \* the text area
  text_from_file, \* extract_text_from_upload(uploaded)
  use_mock,       \* the sidebar toggle
  max_clauses,    \* the sidebar slider
  run_chunks,     \* chunks, from line 487 on
  results,        \* the list results
  raised,         \* <<i, str(e)>> for each turn i whose except branch ran
  calls,          \* the classifier calls made so far
  warning,        \* the st.warning shown, if any
  run_pc,         \* where the run is: button, loop, export, stopped, off
  \* one classifier call inside the loop's try/except
  c_clause,     \* ch
  c_focus,      \* focus
  c_mock,       \* use_mock
  c_resp,       \* what the client answers
  c_out,        \* [ca, raised, detail] once the call is over
  c_pc          \* ready, done, off

segVars == <<raw, min_chars, max_chars, text, parts, pidx, sentences, sidx,
             buf, chunks, fell_back, seg_pc>>

runVars == <<pasted, text_from_file, use_mock, max_clauses, run_chunks,
             results, raised, calls, warning, run_pc>>

clsVars == <<c_clause, c_focus, c_mock, c_resp, c_out, c_pc>>

vars == <<segVars, runVars, clsVars>>

\* the parts of the state a specification does not use
SegOff ==
  /\ raw = <<>> /\ min_chars = 0 /\ max_chars = 0
  /\ text = <<>> /\ parts = <<>> /\ pidx = 0
  /\ sentences = <<>> /\ sidx = 0
  /\ buf = <<>> /\ chunks = <<>>
  /\ fell_back = FALSE
  /\ seg_pc = "off"

RunOff ==
  /\ pasted = <<>> /\ text_from_file = <<>>
  /\ use_mock = TRUE /\ max_clauses = 0
  /\ run_chunks = <<>> /\ results = <<>> /\ raised = {} /\ calls = 0
  /\ warning = "" /\ run_pc = "off"

ClsOff ==
  /\ c_clause = <<>> /\ c_focus = <<>> /\ c_mock = TRUE
  /\ c_resp = [kind |-> "no_sdk"] /\ c_out = None /\ c_pc = "off"

(***************************************************************************)
(* split_into_clauses, step by step                                        *)
(***************************************************************************)

\* the longest argument text
MaxLen == 5

SegAlphabet == {"a", ".", " ", "\n", "\r", "1"}

\* the longest argument text of sentences only
MaxPlainLen == 7

PlainAlphabet == {"a", ".", " "}

SegTexts ==
  UNION {[1..n -> SegAlphabet] : n \in 0..MaxLen}
    \cup UNION {[1..n -> PlainAlphabet] : n \in (MaxLen + 1)..MaxPlainLen}

MinCharsSet == {0, 2}

MaxCharsSet == {1, 3}

SegInit ==
  /\ raw \in SegTexts
  /\ min_chars \in MinCharsSet
  /\ max_chars \in MaxCharsSet
  /\ text = <<>> /\ parts = <<>> /\ pidx = 0
  /\ sentences = <<>> /\ sidx = 0
  /\ buf = <<>> /\ chunks = <<>>
  /\ fell_back = FALSE
  /\ seg_pc = "start"
  /\ RunOff /\ ClsOff

\* text = normalize_text(text); parts = re.split(...); chunks = []; buf = []
SegEnter ==
  /\ seg_pc = "start"
  /\ text' = normalize_text(raw)
  /\ parts' = SplitSections(normalize_text(raw))
  /\ pidx' = 1
  /\ buf' = <<>> /\ chunks' = <<>>
  /\ seg_pc' = "part"
  /\ UNCHANGED <<raw, min_chars, max_chars, sentences, sidx, fell_back>>
  /\ UNCHANGED <<runVars, clsVars>>

\* for part in parts: sentences = re.split(..., part.strip())
SegNextPart ==
  /\ seg_pc = "part" /\ pidx <= Len(parts)
  /\ sentences' = SplitSentences(parts[pidx])
  /\ sidx' = 1
  /\ seg_pc' = "sentence"
  /\ UNCHANGED <<raw, min_chars, max_chars, text, parts, pidx, buf, chunks,
                 fell_back>>
  /\ UNCHANGED <<runVars, clsVars>>

\* for sent in sentences: buf.append(sent); flush and reset on overflow
SegSentence ==
  /\ seg_pc = "sentence" /\ sidx <= Len(sentences)
  /\ LET st == AfterSentence([buf |-> buf, chunks |-> chunks],
                             sentences[sidx], min_chars, max_chars)
     IN  buf' = st.buf /\ chunks' = st.chunks
  /\ sidx' = sidx + 1
  /\ UNCHANGED <<raw, min_chars, max_chars, text, parts, pidx, sentences,
                 fell_back, seg_pc>>
  /\ UNCHANGED <<runVars, clsVars>>

\* after the inner loop: if buf: flush(buf); buf = []
SegEndPart ==
  /\ seg_pc = "sentence" /\ sidx > Len(sentences)
  /\ LET st == AfterPart([buf |-> buf, chunks |-> chunks], min_chars)
     IN  buf' = st.buf /\ chunks' = st.chunks
  /\ pidx' = pidx + 1
  /\ seg_pc' = "part"
  /\ UNCHANGED <<raw, min_chars, max_chars, text, parts, sentences, sidx,
                 fell_back>>
  /\ UNCHANGED <<runVars, clsVars>>

\* after the outer loop: the fallback, and return chunks
SegReturn ==
  /\ seg_pc = "part" /\ pidx > Len(parts)
  /\ chunks' = Fallback(chunks, text)
  /\ fell_back' = (Fallback(chunks, text) # chunks)
  /\ seg_pc' = "done"
  /\ UNCHANGED <<raw, min_chars, max_chars, text, parts, pidx, sentences,
                 sidx, buf>>
  /\ UNCHANGED <<runVars, clsVars>>

SegNext == SegEnter \/ SegNextPart \/ SegSentence \/ SegEndPart \/ SegReturn

SpecSeg == SegInit /\ [][SegNext]_vars

\* the call, step by step, returns what the function returns
SegAgrees ==
  seg_pc = "done" => chunks = split_into_clauses(raw, min_chars, max_chars)

\* the chunks of the packing loops alone, before the fallback
Packed(t, lo, hi) ==
  PackParts([buf |-> <<>>, chunks |-> <<>>], SplitSections(normalize_text(t)),
            lo, hi).chunks

\* the whole-document fallback did not produce the clauses returned
Windowed == seg_pc = "done" /\ ~fell_back

\* the last sentence candidate of a clause
LastSentence(chunk) ==
  LET ss == SplitSentences(chunk) IN ss[Len(ss)]

C4_AsStated ==
  seg_pc = "done" =>
     /\ ~fell_back =>
          \A i \in 1..Len(chunks) :
             \/ Len(chunks[i]) >= min_chars
             \/ /\ Len(SplitSentences(chunks[i])) = 1
                /\ Len(chunks[i]) > max_chars
     /\ \A i \in 1..Len(chunks) : chunks[i] # <<>>

C6_AsStated ==
  (seg_pc = "done" /\ raw = <<>>) => chunks = <<>>

\* the sentence candidates of a text, section by section, in order
RECURSIVE SentencesOf(_)
SentencesOf(ps) ==
  IF ps = <<>> THEN <<>>
  ELSE SplitSentences(Head(ps)) \o SentencesOf(Tail(ps))

\* cs are the joins of disjoint runs of ss, each run after the one before
RECURSIVE Covers(_, _, _)
Covers(cs, ss, from) ==
  \/ cs = <<>>
  \/ \E lo \in from..Len(ss) : \E hi \in lo..Len(ss) :
        /\ Head(cs) = Strip(Join(SubSeq(ss, lo, hi)))
        /\ Covers(Tail(cs), ss, hi + 1)

\* C7: the clauses are built from pairwise disjoint contiguous runs of the
\* sentence candidates of the normalized text, in document order.
C7_Order ==
  Windowed =>
     Covers(chunks, SentencesOf(SplitSections(normalize_text(raw))), 1)

\* two clauses were returned, the first of two sentences
C7_Witness ==
  /\ Windowed
  /\ Len(chunks) >= 2
  /\ Len(SplitSentences(chunks[1])) >= 2

\* a clause is the join of one run of the sentences of one section
InOneSection(chunk, ps) ==
  \E p \in 1..Len(ps) :
     LET ss == SplitSentences(ps[p])
     IN  \E lo \in 1..Len(ss) : \E hi \in lo..Len(ss) :
            chunk = Strip(Join(SubSeq(ss, lo, hi)))

\* C10: the buffer is empty at the start of every section candidate (a
\* trailing buffer below min_chars is dropped, not carried over), and no
\* clause but the whole-document fallback holds sentences of two sections.
C10_Isolation ==
  /\ seg_pc = "part" => buf = <<>>
  /\ Windowed =>
       \A i \in 1..Len(chunks) :
          InOneSection(chunks[i], SplitSections(normalize_text(raw)))

\* a section shorter than min_chars was dropped and a later one returned
C10_Witness ==
  /\ Windowed
  /\ chunks # <<>>
  /\ \E p \in 1..(Len(parts) - 1) :
        /\ Strip(parts[p]) # <<>>
        /\ Len(Strip(parts[p])) < min_chars
        /\ \A i \in 1..Len(chunks) : ~Contains(parts[p], chunks[i])

(***************************************************************************)
(* The analysis run: the script from line 474 with analyze_btn set         *)
(***************************************************************************)

\* the defaults of split_into_clauses, which the run relies on
DEFAULT_MIN_CHARS == 250

DEFAULT_MAX_CHARS == 1100

\* st.slider("Max clauses to analyze", 3, 40, 12): the least value
MIN_MAX_CLAUSES == 3

\* the greatest slider value of the model
MaxClausesHi == 4

\* the most paragraphs of a document of the model
MaxPars == 4

\* the focus preset the sidebar starts with
S_General == <<"G", "e", "n", "e", "r", "a", "l">>

Pad == [i \in 1..DEFAULT_MIN_CHARS |-> "x"]

\* a paragraph after a blank line, long enough for a clause, risky keyword
BlockRisky ==
  <<"\n", "\n", "T", "h", "e", " ", "C", "l", "i", "e", "n", "t", " ", "s",
    "h", "a", "l", "l", " ", "I", "N", "D", "E", "M", "N", "I", "F", "Y",
    " ", "u", "s", ".", " ">> \o Pad

\* a paragraph under a section heading, long enough, review keyword
BlockReview ==
  <<"\n", "S", "e", "c", "t", "i", "o", "n", " ", "2", " ", "N", "o", "t",
    "i", "c", "e", " ", "o", "f", " ", "3", "0", " ", "d", "a", "y", "s",
    ";", " ">> \o Pad

\* a paragraph under a roman heading, too short for a clause of its own
BlockShort ==
  <<"\n", "i", "v", ".", " ", "S", "h", "o", "r", "t", " ", "n", "o", "t",
    "e", ".">>

Blocks == {BlockRisky, BlockReview, BlockShort}

RECURSIVE Concat(_)
Concat(seqs) == IF seqs = <<>> THEN <<>> ELSE Head(seqs) \o Concat(Tail(seqs))

Docs == {Concat(bs) : bs \in UNION {[1..n -> Blocks] : n \in 0..MaxPars}}

\* what the client answers in a run: a well-formed answer, an answer with
\* a shouted label, an out-of-range score and no why, and a failed request
GoodData ==
  [risk_label |-> Str(S_Risky), risk_score |-> Num(3),
   why |-> Str(<<"B", "r", "o", "a", "d", ".">>),
   suggestion |-> Str(<<"C", "a", "p", ".">>),
   meaning |-> Str(<<"P", "a", "y", "s", ".">>), tags |-> Absent]

LooseData ==
  [risk_label |-> Str(<<"S", "A", "F", "E">>), risk_score |-> Num(7),
   why |-> Absent, suggestion |-> Absent, meaning |-> Absent,
   tags |-> Absent]

S_Timeout == <<"t", "i", "m", "e", "d", " ", "o", "u", "t">>

RunResponses ==
  {[kind |-> "json", data |-> GoodData], [kind |-> "json", data |-> LooseData],
   [kind |-> "error", detail |-> S_Timeout]}

RunInit ==
  /\ \/ pasted \in Docs /\ text_from_file = <<>>
     \/ /\ pasted \in {<<>>, <<" ">>}
        /\ text_from_file \in {<<>>, <<"\n", "\n">>, BlockReview}
  /\ use_mock \in BOOLEAN
  /\ max_clauses \in MIN_MAX_CLAUSES..MaxClausesHi
  /\ run_chunks = <<>> /\ results = <<>> /\ raised = {} /\ calls = 0
  /\ warning = "" /\ run_pc = "button"
  /\ SegOff /\ ClsOff

\* contract_text = (pasted or "").strip() or text_from_file
contract_text ==
  IF Strip(pasted) # <<>> THEN Strip(pasted) ELSE text_from_file

\* if not contract_text: st.warning(...); st.stop()
RunNoText ==
  /\ run_pc = "button"
  /\ contract_text = <<>>
  /\ warning' = "Please upload or paste a contract."
  /\ run_pc' = "stopped"
  /\ UNCHANGED <<pasted, text_from_file, use_mock, max_clauses, run_chunks,
                 results, raised, calls>>
  /\ UNCHANGED <<segVars, clsVars>>

\* chunks = split_into_clauses(contract_text); if not chunks: warn and stop
RunNoChunks ==
  /\ run_pc = "button"
  /\ contract_text # <<>>
  /\ split_into_clauses(contract_text, DEFAULT_MIN_CHARS, DEFAULT_MAX_CHARS)
       = <<>>
  /\ warning' = "Could not split the document into analyzable clauses."
  /\ run_pc' = "stopped"
  /\ UNCHANGED <<pasted, text_from_file, use_mock, max_clauses, run_chunks,
                 results, raised, calls>>
  /\ UNCHANGED <<segVars, clsVars>>

\* chunks = chunks[:max_clauses]
Truncate(cs, n) == SubSeq(cs, 1, Min(n, Len(cs)))

\* chunks = chunks[:max_clauses]; results = []; the loop starts
RunStart ==
  /\ run_pc = "button"
  /\ contract_text # <<>>
  /\ LET cs == split_into_clauses(contract_text, DEFAULT_MIN_CHARS,
                                  DEFAULT_MAX_CHARS)
     IN  /\ cs # <<>>
         /\ run_chunks' = Truncate(cs, max_clauses)
  /\ results' = <<>>
  /\ run_pc' = "loop"
  /\ UNCHANGED <<pasted, text_from_file, use_mock, max_clauses, raised,
                 calls, warning>>
  /\ UNCHANGED <<segVars, clsVars>>

\* a turn without the try/except: the exception ends the run
RunTurn_Propagate(resp) ==
  /\ run_pc = "loop"
  /\ Len(results) < Len(run_chunks)
  /\ LET i == Len(results) + 1
         out == LoopBody(run_chunks[i], use_mock, S_General, resp)
     IN  /\ results' = IF out.raised THEN results ELSE Append(results, out.ca)
         /\ raised' = IF out.raised THEN raised \cup {<<i, out.detail>>}
                      ELSE raised
         /\ run_pc' = IF out.raised THEN "stopped" ELSE run_pc
  /\ calls' = calls + 1
  /\ UNCHANGED <<pasted, text_from_file, use_mock, max_clauses, run_chunks,
                 warning>>
  /\ UNCHANGED <<segVars, clsVars>>

\* one turn of for i, ch in enumerate(chunks, start=1), given the answer
RunTurn(resp) ==
  /\ run_pc = "loop"
  /\ Len(results) < Len(run_chunks)
  /\ LET i == Len(results) + 1
         out == LoopBody(run_chunks[i], use_mock, S_General, resp)
     IN  /\ results' = Append(results, out.ca)
         /\ raised' = IF out.raised THEN raised \cup {<<i, out.detail>>}
                      ELSE raised
  /\ calls' = calls + 1
  /\ UNCHANGED <<pasted, text_from_file, use_mock, max_clauses, run_chunks,
                 warning, run_pc>>
  /\ UNCHANGED <<segVars, clsVars>>

\* a turn with use_mock set: mock_analyze, which asks no client
RunTurnMock == use_mock /\ RunTurn([kind |-> "no_sdk"])

\* a turn with use_mock unset: analyze_with_llm, whatever the client answers
RunTurnLlm == ~use_mock /\ \E resp \in RunResponses : RunTurn(resp)

\* after the loop: progress.empty() and the reports
RunExport ==
  /\ run_pc = "loop"
  /\ Len(results) = Len(run_chunks)
  /\ run_pc' = "export"
  /\ UNCHANGED <<pasted, text_from_file, use_mock, max_clauses, run_chunks,
                 results, raised, calls, warning>>
  /\ UNCHANGED <<segVars, clsVars>>

RunNext ==
  RunNoText \/ RunNoChunks \/ RunStart \/ RunTurnMock \/ RunTurnLlm
    \/ RunExport

SpecRun == RunInit /\ [][RunNext]_vars

\* the clauses of the document of the run
RunClauses ==
  split_into_clauses(contract_text, DEFAULT_MIN_CHARS, DEFAULT_MAX_CHARS)

\* C1: the run dispatches the first max_clauses clauses of the document;
\* whichever classifier calls raise, the run ends with one result per clause
\* dispatched, in order, the result of a call that raised being the sentinel
\* (Review, 2, the failure meaning, a why that embeds the detail); the run
\* is out of the loop only with every clause answered, or stopped before
\* any call.
C1_Containment ==
  /\ (run_pc = "loop" /\ results = <<>>) =>
        /\ Len(run_chunks) = Min(max_clauses, Len(RunClauses))
        /\ \A i \in 1..Len(run_chunks) : run_chunks[i] = RunClauses[i]
  /\ run_pc \in {"loop", "export"} =>
        /\ Len(results) <= Len(run_chunks)
        /\ calls = Len(results)
        /\ \A i \in 1..Len(results) : results[i].clause = Strip(run_chunks[i])
        /\ \A f \in raised :
              /\ f[1] \in 1..Len(results)
              /\ results[f[1]].risk_label = S_Review
              /\ results[f[1]].risk_score = 2
              /\ results[f[1]].meaning = S_Failed
              /\ results[f[1]].why = S_ErrorPrefix \o f[2]
  /\ run_pc = "export" => Len(results) = Len(run_chunks)
  /\ run_pc = "stopped" => calls = 0 /\ results = <<>>

\* a run over a document of more clauses than max_clauses ended, the call
\* for its second clause having raised and the call for its third not
C1_Witness ==
  /\ run_pc = "export"
  /\ Len(pasted) > 4 * DEFAULT_MIN_CHARS
  /\ Len(results) = max_clauses
  /\ {f[1] : f \in raised} = {2}
  /\ results[3].risk_label = S_Risky

\* C9: the why of every ClauseAnalysis in the results is not empty.
C9_AsStated ==
  \A i \in 1..Len(results) : results[i].why # <<>>

(***************************************************************************)
(* One classifier call, over many clauses and answers                      *)
(***************************************************************************)

\* the most keywords put into one clause
MaxWords == 2

\* words of no list, with and without capitals
S_Rent == <<"R", "e", "n", "t">>

S_Shouted == <<"P", "E", "R", "P", "E", "T", "U", "A", "L">>

Range(s) == {s[i] : i \in 1..Len(s)}

ClauseWords == Range(RiskyKeywords) \cup Range(ReviewKeywords)
                 \cup {S_Rent, S_Shouted}

\* clauses of up to MaxWords words, and one with blanks around it
ClsClauses ==
  {Join(ws) : ws \in UNION {[1..n -> ClauseWords] : n \in 0..MaxWords}}
    \cup {<<" ">> \o S_Rent \o <<"\n">>}

S_NDA == <<"N", "D", "A">>

LabelValues ==
  {Absent, Null, Num(3), Str(S_Safe), Str(S_safe), Str(<<>>),
   Str(<<"R", "I", "S", "K", "Y">>), Str(<<" ">> \o S_review \o <<" ">>),
   Str(<<"h", "i", "g", "h">>)}

ScoreValues ==
  {Absent, Null, Num(-1), Num(0), Num(1), Num(2), Num(3), Num(4), Num(17),
   Str(<<"2">>), Str(<<" ", "-", "3">>), Str(<<"h", "i", "g", "h">>)}

WhyValues == {Absent, Str(<<>>), Str(<<" ", " ">>), Str(<<" ", "W", "h", "y">>)}

SuggestionValues == {Absent, Str(<<" ">>), Str(<<"C", "a", "p", ".">>)}

ClsData ==
  [risk_label : LabelValues, risk_score : ScoreValues, why : WhyValues,
   suggestion : SuggestionValues, meaning : {Absent}, tags : {Absent}]

ClsResponses ==
  {[kind |-> "json", data |-> d] : d \in ClsData}
    \cup {[kind |-> "error", detail |-> S_Timeout],
          [kind |-> "error", detail |-> <<>>], [kind |-> "no_sdk"]}

ClsInit ==
  /\ \/ /\ c_mock = TRUE
        /\ c_clause \in ClsClauses
        /\ c_focus \in {S_General, S_NDA}
        /\ c_resp = [kind |-> "no_sdk"]
     \/ /\ c_mock = FALSE
        /\ c_clause \in {S_Rent, <<" ">> \o S_Rent \o <<"\n">>}
        /\ c_focus = S_General
        /\ c_resp \in ClsResponses
  /\ c_out = None
  /\ c_pc = "ready"
  /\ SegOff /\ RunOff

\* the loop's try/except around one classifier call
ClsCall ==
  /\ c_pc = "ready"
  /\ c_out' = LoopBody(c_clause, c_mock, c_focus, c_resp)
  /\ c_pc' = "done"
  /\ UNCHANGED <<c_clause, c_focus, c_mock, c_resp>>
  /\ UNCHANGED <<segVars, runVars>>

\* ca = mock_analyze(ch, focus, jurisdiction)
ClsMock == c_mock /\ ClsCall

\* ca = analyze_with_llm(ch, ...), or the sentinel where it raises
ClsLlm == ~c_mock /\ ClsCall

ClsNext == ClsMock \/ ClsLlm

SpecCls == ClsInit /\ [][ClsNext]_vars

\* the raw risk_score of the answer is an integer, where there is an answer
IntegerScore ==
  c_mock \/ c_resp.kind # "json" \/ c_resp.data.risk_score.tag = "int"

\* C2: whatever the raw risk_label, and for every integer raw risk_score,
\* the ClauseAnalysis of either classifier or of the except branch has a
\* risk_score in 1..3 and a risk_label that is Safe, Review or Risky.
C2_AsStated ==
  (c_pc = "done" /\ IntegerScore) =>
     /\ c_out.ca.risk_score \in 1..3
     /\ c_out.ca.risk_label \in {S_Safe, S_Review, S_Risky}

\* the keywords of a list that the lower-cased clause contains
Matched(keywords) ==
  {kw \in Range(keywords) : Contains(Lower(c_clause), kw)}

\* C8: mock_analyze answers Risky and 3 if a risky keyword matches (and then
\* gives no review reason), else Review and 2 if a review keyword matches,
\* else Safe, 1 and the no-red-flags why; the score is the label's, the why
\* contains each matched keyword of the list scanned, and the suggestion is
\* absent exactly when the label is Safe.
C8_Precedence ==
  (c_pc = "done" /\ c_mock) =>
     LET ca == c_out.ca
     IN  /\ Matched(RiskyKeywords) # {} =>
              /\ ca.risk_label = S_Risky /\ ca.risk_score = 3
              /\ ~Contains(ca.why, S_Mentions)
              /\ \A kw \in Matched(RiskyKeywords) : Contains(ca.why, kw)
         /\ (Matched(RiskyKeywords) = {} /\ Matched(ReviewKeywords) # {}) =>
              /\ ca.risk_label = S_Review /\ ca.risk_score = 2
              /\ \A kw \in Matched(ReviewKeywords) : Contains(ca.why, kw)
         /\ (Matched(RiskyKeywords) = {} /\ Matched(ReviewKeywords) = {}) =>
              /\ ca.risk_label = S_Safe /\ ca.risk_score = 1
              /\ ca.why = S_NoRedFlags
         /\ ca.risk_score = RISK_MAP[Lower(ca.risk_label)]
         /\ (ca.suggestion = None) <=> (ca.risk_label = S_Safe)

\* mock_analyze has answered for a clause with a risky and a review keyword
C8_Witness ==
  /\ c_pc = "done" /\ c_mock
  /\ Matched(RiskyKeywords) # {} /\ Matched(ReviewKeywords) # {}
  /\ c_out.ca.risk_label = S_Risky

====
